---- MODULE Spec2Model ----
(***************************************************************************)
(* Model of IPythonWorkflow/uniformgradientboosting.py: the kNN-coupled    *)
(* exponential loss (KnnLossFunction), its two matrix-building subclasses  *)
(* (PairwiseKnnLossFunction, SimpleKnnLossFunction) and the way the        *)
(* boosting driver calls its per-stage refresh and its per-leaf update.    *)
(*                                                                         *)
(* Values.  Vectors are sequences, a matrix is a sequence of rows.  An     *)
(* unset attribute, an unbound local and the argument None are all the     *)
(* empty sequence << >>.  Scores are integers, so every number the loss    *)
(* computes is a finite sum of terms c * e^x with integer c and x; such a  *)
(* sum is kept exactly, as the set of its pairs <<x, c>> with c # 0 (e is  *)
(* transcendental, so two sums are equal reals iff the sets are equal).    *)
(***************************************************************************)
EXTENDS Integers, Sequences, FiniteSets, TLC

\* ------------------------------------------------------------------ bounds
MaxN == 3          \* training samples handed to the Pairwise/Simple constructors
MaxK == 2          \* neighbours per sample (knn)
MaxStages == 2     \* boosting stages of one fit

ClassCounts == {1, 2, 3}     \* n_classes values tried on the constructor
EntryVals == 0 .. 2          \* entries of a coefficient matrix handed in directly
WeightVals == {0, 2}         \* entries of an explicit initial_weights
PredVals == 0 .. 1           \* scores
RowCounts == 1 .. 2          \* rows of a matrix handed in directly
ColCounts == 1 .. 2          \* columns of such a matrix (samples of a fit)
Leaves == 1 .. 2             \* leaf ids of a fitted tree

\* ------------------------------------------------------------- arithmetic
RECURSIVE SumSeq(_)
SumSeq(s) == IF s = << >> THEN 0 ELSE Head(s) + SumSeq(Tail(s))

Mul(a, b) == [i \in 1 .. Len(a) |-> a[i] * b[i]]

NRows(M) == Len(M)
NCols(M) == Len(M[1])
Shape(M) == <<NRows(M), NCols(M)>>

\* scipy: M.dot(v)
Dot(M, v) == [r \in 1 .. NRows(M) |-> SumSeq([j \in 1 .. Len(v) |-> M[r][j] * v[j]])]

\* scipy: M.transpose()
Transpose(M) == [j \in 1 .. NCols(M) |-> [r \in 1 .. NRows(M) |-> M[r][j]]]

\* numpy.ones(n)
Ones(n) == [i \in 1 .. n |-> 1]

\* the all-zero rows x cols matrix
Zeros(rows, cols) == [r \in 1 .. rows |-> [j \in 1 .. cols |-> 0]]

\* M[r, c] += 1
Incr(M, r, c) == [M EXCEPT ![r][c] = @ + 1]

Matrices(rows, cols) == [1 .. rows -> [1 .. cols -> EntryVals]]

\* ------------------------------------------------------ sums of c * e^x
\* A term <<c, x>> is the number c * e^x; a zero term is written <<0, 0>>.
NormTerm(c, x) == IF c = 0 THEN <<0, 0>> ELSE <<c, x>>

\* numpy.exp(v) for an integer vector v
NpExp(v) == [r \in 1 .. Len(v) |-> <<1, v[r]>>]

\* - v
Neg(v) == [r \in 1 .. Len(v) |-> 0 - v[r]]

\* w * ts, element by element: a vector of numbers times a vector of terms
Weighted(w, ts) == [r \in 1 .. Len(ts) |-> NormTerm(w[r] * ts[r][1], ts[r][2])]

\* ts.sum(): the exact sum of a vector of terms
SumTerms(ts) ==
  LET xs == {ts[r][2] : r \in 1 .. Len(ts)}
      coef(x) == SumSeq([r \in 1 .. Len(ts) |-> IF ts[r][2] = x THEN ts[r][1] ELSE 0])
  IN {<<x, coef(x)>> : x \in {x \in xs : coef(x) # 0}}

\* M.dot(ts) for a vector of terms
DotTerms(M, ts) == [i \in 1 .. NRows(M) |-> SumTerms(Weighted(M[i], ts))]

\* sums * v, element by element: a vector of sums times a vector of numbers
ScaleSums(sums, v) ==
  [i \in 1 .. Len(sums) |-> {<<p[1], p[2] * v[i]>> : p \in sums[i]}]

\* y_signed = 2 * y - 1
YSigned(y) == [i \in 1 .. Len(y) |-> 2 * y[i] - 1]

\* numpy.exp(- M.dot(y_signed * numpy.ravel(pred)))   (lines 78, 84, 94)
Exponents(M, y, pred) == NpExp(Neg(Dot(M, Mul(YSigned(y), pred))))

\* The size assertion of lines 76 and 82.
SizesOk(M, y, pred) == Len(y) = Len(pred) /\ Len(pred) = NCols(M)

\* KnnLossFunction.__call__(y, pred)
Loss(M, w0, y, pred) ==
  IF ~SizesOk(M, y, pred)
  THEN [raised |-> "AssertionError", value |-> {}]
  ELSE [raised |-> "none", value |-> SumTerms(Weighted(w0, Exponents(M, y, pred)))]

\* KnnLossFunction.negative_gradient(y, pred)
negative_gradient(M, Mt, w0, y, pred) ==
  IF ~SizesOk(M, y, pred)
  THEN [raised |-> "AssertionError", value |-> << >>]
  ELSE [raised |-> "none",
        value |-> ScaleSums(DotTerms(Mt, Weighted(w0, Exponents(M, y, pred))), YSigned(y))]

\* The value line 94 assigns to self.update_exponents.
UpdateExponents(M, w0, y, y_pred) == Weighted(w0, Exponents(M, y, y_pred))

\* The leaf value num / (den + 1e-10); 0 / (den + 1e-10) is 0 whatever den is.
\* With integer coefficients below 1e10 two such quotients are equal reals
\* iff these records are equal.
Alpha(num, den) ==
  IF num = {} THEN [num |-> {}, den |-> {}] ELSE [num |-> num, den |-> den]

\* The value a fitted tree holds in a leaf before the loss overwrites it
\* (no quotient the loss computes: its denominator is negative).
FittedValue == [num |-> {}, den |-> {<<0, -1>>}]

\* z = M.dot((terminal_regions == leaf) * y_signed)   (line 101)
LeafZ(M, terminal_regions, leaf, y) ==
  Dot(M, Mul([i \in 1 .. Len(y) |-> IF terminal_regions[i] = leaf THEN 1 ELSE 0],
             YSigned(y)))

\* alpha with the sum of ue * z, not ue * z * z, under the fraction bar.
LeafAlpha_LinearDen(M, ue, terminal_regions, leaf, y) ==
  LET z == LeafZ(M, terminal_regions, leaf, y)
  IN Alpha(SumTerms(Weighted(z, ue)), SumTerms(Weighted(z, ue)))

\* alpha of line 102, from the exponents ue the instance holds
LeafAlpha(M, ue, terminal_regions, leaf, y) ==
  LET z == LeafZ(M, terminal_regions, leaf, y)
  IN Alpha(SumTerms(Weighted(z, ue)), SumTerms(Weighted(Mul(z, z), ue)))

\* ----------------------------------------------------------------- state
VARIABLES
  phase,                  \* "new" before a constructor has run, "done" after
  cls,                    \* the class whose constructor ran
  n_classes,              \* constructor argument (KnnLossFunction)
  arg_matrix,             \* constructor argument coefficients_matrix
  arg_weights,            \* constructor argument initial_weights (<< >> is None)
  trainY,                 \* constructor argument (Pairwise / Simple)
  knn,                    \* constructor argument (Pairwise / Simple)
  knn_signal,             \* local of the Pairwise / Simple constructor
  knn_bg,                 \* local of the Pairwise / Simple constructor
  raised,                 \* the exception that ended the last call, or "none"
  coefficients_matrix,    \* self.coefficients_matrix
  coefficients_matrix_t,  \* self.coefficients_matrix_t
  initial_weights,        \* self.initial_weights
  update_exponents,       \* self.update_exponents
  fits,                   \* per fit that uses the instance: the driver's position and data
  last,                   \* the last direct call of a method: its arguments and result
  clf,                    \* a MyGradientBoostingClassifier: its parameters and attributes
  report                  \* the objects of reports.py: ClassifiersDict, Predictions

ctorVars == <<phase, cls, n_classes, arg_matrix, arg_weights, trainY, knn,
              knn_signal, knn_bg>>
selfVars == <<coefficients_matrix, coefficients_matrix_t, initial_weights>>
lossVars == <<ctorVars, selfVars, raised, update_exponents, fits, last>>
vars == <<lossVars, clf, report>>

\* ------------------------------------------------- KnnLossFunction.__init__
\* __init__ with the class-count test moved below the assignments.
KnnLossFunction_init_LateCheck(nc, cm, iw) ==
  [raised |-> IF nc # 2 THEN "NotImplementedError"
              ELSE IF iw # << >> /\ Len(iw) # NRows(cm) THEN "AssertionError"
              ELSE "none",
   cm |-> cm, cmt |-> Transpose(cm),
   iw |-> IF iw = << >> THEN Ones(NRows(cm)) ELSE iw]

\* __init__ without the length assertion on initial_weights.
KnnLossFunction_init_NoAssert(nc, cm, iw) ==
  IF nc # 2
  THEN [raised |-> "NotImplementedError", cm |-> << >>, cmt |-> << >>, iw |-> << >>]
  ELSE [raised |-> "none", cm |-> cm, cmt |-> Transpose(cm),
        iw |-> IF iw = << >> THEN Ones(NRows(cm)) ELSE iw]

\* The attributes of self when __init__ returns or raises (lines 62-72).
KnnLossFunction_init(nc, cm, iw) ==
  IF nc # 2
  THEN [raised |-> "NotImplementedError", cm |-> << >>, cmt |-> << >>, iw |-> << >>]
  ELSE IF iw = << >>
  THEN [raised |-> "none", cm |-> cm, cmt |-> Transpose(cm), iw |-> Ones(NRows(cm))]
  ELSE IF Len(iw) # NRows(cm)
  THEN [raised |-> "AssertionError", cm |-> cm, cmt |-> Transpose(cm), iw |-> << >>]
  ELSE [raised |-> "none", cm |-> cm, cmt |-> Transpose(cm), iw |-> iw]

StoreSelf(made) ==
  /\ raised' = made.raised
  /\ coefficients_matrix' = made.cm
  /\ coefficients_matrix_t' = made.cmt
  /\ initial_weights' = made.iw

\* The same as an initial condition.
StoreSelf0(made) ==
  /\ raised = made.raised
  /\ coefficients_matrix = made.cm
  /\ coefficients_matrix_t = made.cmt
  /\ initial_weights = made.iw

NothingStored(exc) ==
  StoreSelf([raised |-> exc, cm |-> << >>, cmt |-> << >>, iw |-> << >>])

\* KnnLossFunction(n_classes, coefficients_matrix, initial_weights)
KnnLossFunction_new ==
  /\ phase = "new"
  /\ \E nc \in ClassCounts, rows \in RowCounts, cols \in ColCounts :
       \E cm \in Matrices(rows, cols) :
         \E iw \in {<< >>} \cup UNION {[1 .. n -> WeightVals] : n \in RowCounts} :
           /\ phase' = "done"
           /\ cls' = "KnnLossFunction"
           /\ n_classes' = nc
           /\ arg_matrix' = cm
           /\ arg_weights' = iw
           /\ StoreSelf(KnnLossFunction_init(nc, cm, iw))
  /\ UNCHANGED <<trainY, knn, knn_signal, knn_bg, update_exponents, fits, last, clf, report>>

\* ------------------------------------------------ neighbour-group building
\* is_signal = trainY > 0.5
IsSignal(tY) == [i \in 1 .. Len(tY) |-> tY[i] = 1]

\* ~is_signal
Not(mask) == [i \in 1 .. Len(mask) |-> ~mask[i]]

Members(mask) == {i \in 1 .. Len(mask) : mask[i]}

\* The neighbour search cannot give k neighbours inside a partition of fewer
\* than k samples: it raises.
KnnFails(mask, k) == Cardinality(Members(mask)) < k

\* commonutils.computeSignalKnnIndices(uniform_variables, trainX, mask, k): for
\* every sample, k distinct samples of the partition `mask` (its k nearest
\* ones; which ones is the collaborator's choice).  All answers it can give.
computeSignalKnnIndices(mask, k) ==
  [1 .. Len(mask) ->
     {row \in [1 .. k -> Members(mask)] :
        \A a, b \in 1 .. k : a # b => row[a] # row[b]}]

\* The override with the mask inverted.
Override_Inverted(kb, ks, is_signal) ==
  [i \in 1 .. Len(kb) |-> IF is_signal[i] THEN kb[i] ELSE ks[i]]

\* knn_bg[is_signal, :] = knn_signal[is_signal, :]
Override(kb, ks, is_signal) ==
  [i \in 1 .. Len(kb) |-> IF is_signal[i] THEN ks[i] ELSE kb[i]]

\* Arguments of scipy's csr_matrix as the call site writes them: a bare
\* integer, a tuple of two integers, or nothing.
IntArg(n) == [kind |-> "int", val |-> <<n>>]
TupleArg(r, c) == [kind |-> "tuple", val |-> <<r, c>>]
NoArg == [kind |-> "none", val |-> << >>]

\* scipy.sparse.csr_matrix(arg1, shape).  A tuple arg1 is a shape and gives
\* the empty matrix of that shape; anything else is dense data, a bare integer
\* n being the 1 x 1 matrix [[n]].  A shape argument is then assigned to
\* .shape, which takes tuple(shape): a bare integer is not iterable.
csr_matrix(arg1, shape) ==
  IF arg1.kind = "tuple"
  THEN IF shape.kind \in {"none", "tuple"} /\ (shape.kind = "none" \/ shape.val = arg1.val)
       THEN [raised |-> "none", m |-> Zeros(arg1.val[1], arg1.val[2])]
       ELSE [raised |-> "TypeError", m |-> << >>]
  ELSE IF shape.kind = "none" \/ (shape.kind = "tuple" /\ shape.val = <<1, 1>>)
       THEN [raised |-> "none", m |-> <<arg1.val>>]
       ELSE IF shape.kind = "int"
            THEN [raised |-> "TypeError", m |-> << >>]
            ELSE [raised |-> "ValueError", m |-> << >>]

\* Lines 113-117: for i, for j: row = i * knn + j;
\*   coefficients_matrix[row, i] += 1; coefficients_matrix[row, knn_bg[i, j]] += 1
\* (indices from 1 here: row = (i - 1) * knn + j).  step counts the (i, j)
\* pairs already done, in loop order.
RECURSIVE FillPairwise(_, _, _, _)
FillPairwise(M, kb, k, step) ==
  IF step = Len(kb) * k THEN M
  ELSE LET i == (step \div k) + 1
           j == (step % k) + 1
           row == (i - 1) * k + j
       IN FillPairwise(Incr(Incr(M, row, i), row, kb[i][j]), kb, k, step + 1)

\* Lines 128-130: for i, for j: coefficients_matrix[i, knn_bg[i, j]] += 1
RECURSIVE FillSimple(_, _, _, _)
FillSimple(M, kb, k, step) ==
  IF step = Len(kb) * k THEN M
  ELSE LET i == (step \div k) + 1
           j == (step % k) + 1
       IN FillSimple(Incr(M, i, kb[i][j]), kb, k, step + 1)

\* The two csr_matrix calls as written at lines 112 and 127.
PairwiseMatrix(n, k) == csr_matrix(IntArg(n * k), IntArg(n))
SimpleMatrix(n) == csr_matrix(IntArg(n), IntArg(n))

\* The constructor body the two subclasses share line for line (108-111 and
\* 118 are 123-126 and 131); they differ in the csr_matrix call and the loops.
EmptyMatrix(name, n, k) ==
  IF name = "PairwiseKnnLossFunction" THEN PairwiseMatrix(n, k) ELSE SimpleMatrix(n)

FilledMatrix(name, m, kb, k) ==
  IF name = "PairwiseKnnLossFunction"
  THEN FillPairwise(m, kb, k, 0) ELSE FillSimple(m, kb, k, 0)

SubclassInit(name) ==
  /\ phase = "new"
  /\ \E n \in 1 .. MaxN, k \in 1 .. MaxK :
       \E tY \in [1 .. n -> {0, 1}] :
         LET is_signal == IsSignal(tY) IN
         /\ phase' = "done"
         /\ cls' = name
         /\ trainY' = tY
         /\ knn' = k
         /\ IF KnnFails(is_signal, k)
            THEN /\ knn_signal' = << >>
                 /\ knn_bg' = << >>
                 /\ NothingStored("ValueError")
            ELSE \E ks \in computeSignalKnnIndices(is_signal, k) :
                   /\ knn_signal' = ks
                   /\ IF KnnFails(Not(is_signal), k)
                      THEN /\ knn_bg' = << >>
                           /\ NothingStored("ValueError")
                      ELSE \E kb \in computeSignalKnnIndices(Not(is_signal), k) :
                             LET over == Override(kb, ks, is_signal)
                                 made == EmptyMatrix(name, n, k)
                             IN /\ knn_bg' = over
                                /\ IF made.raised # "none"
                                   THEN NothingStored(made.raised)
                                   ELSE StoreSelf(KnnLossFunction_init(
                                          2, FilledMatrix(name, made.m, over, k), << >>))
  /\ UNCHANGED <<n_classes, arg_matrix, arg_weights, update_exponents, fits, last, clf, report>>

\* PairwiseKnnLossFunction(trainX, trainY, uniform_variables, knn)
PairwiseKnnLossFunction_new == SubclassInit("PairwiseKnnLossFunction")

\* SimpleKnnLossFunction(trainX, trainY, uniform_variables, knn)
SimpleKnnLossFunction_new == SubclassInit("SimpleKnnLossFunction")

\* No loss instance has been constructed.
Unbuilt ==
  /\ phase = "new"
  /\ cls = "none"
  /\ n_classes = 0
  /\ arg_matrix = << >>
  /\ arg_weights = << >>
  /\ trainY = << >>
  /\ knn = 0
  /\ knn_signal = << >>
  /\ knn_bg = << >>
  /\ raised = "none"
  /\ coefficients_matrix = << >>
  /\ coefficients_matrix_t = << >>
  /\ initial_weights = << >>
  /\ update_exponents = << >>
  /\ fits = << >>
  /\ last = << >>

InitBuild ==
  /\ Unbuilt
  /\ clf = << >>
  /\ report = << >>

NextBuild ==
  \/ KnnLossFunction_new
  \/ PairwiseKnnLossFunction_new
  \/ SimpleKnnLossFunction_new

SpecBuild == InitBuild /\ [][NextBuild]_vars

\* ------------------------------------------------ the instance under a fit
\* sparse.eye(rows, cols)
Eye(rows, cols) == [r \in 1 .. rows |-> [c \in 1 .. cols |-> IF r = c THEN 1 ELSE 0]]

\* c * M
Scaled(c, M) == [r \in 1 .. NRows(M) |-> [j \in 1 .. NCols(M) |-> c * M[r][j]]]

\* The arguments <<M, w0>> of every call KnnLossFunction(2, M, w0) within the
\* bounds that returns an instance.
InstanceArgs ==
  {a \in (UNION {Matrices(rows, cols) : rows \in RowCounts, cols \in ColCounts})
          \X ({<< >>} \cup (UNION {[1 .. n -> WeightVals] : n \in RowCounts})) :
     KnnLossFunction_init(2, a[1], a[2]).raised = "none"}

\* The arguments of the two instances the module itself builds, over 2
\* samples instead of 1000 and 2000: KnnLossFunction(2, 3 * sparse.eye(n, n))
\* of line 194 and KnnLossFunction(2, sparse.eye(n / 2, n)) of line 208.
TestArgs == {<<Scaled(3, Eye(2, 2)), << >>>>, <<Eye(1, 2), << >>>>}

\* An instance whose rows couple the samples, with explicit weights: row 1
\* sums both samples, row 2 counts sample 2 twice and has weight 0.
CoupledArgs == {<< <<<<1, 1>>, <<0, 2>>>>, <<2, 0>> >>}

\* The state right after KnnLossFunction(2, M, w0) returned, for <<M, w0>>
\* in `family`.
ConstructedFrom(family) ==
  /\ phase = "done"
  /\ cls = "KnnLossFunction"
  /\ n_classes = 2
  /\ trainY = << >>
  /\ knn = 0
  /\ knn_signal = << >>
  /\ knn_bg = << >>
  /\ update_exponents = << >>
  /\ clf = << >>
  /\ report = << >>
  /\ \E a \in family :
       /\ arg_matrix = a[1]
       /\ arg_weights = a[2]
       /\ StoreSelf0(KnnLossFunction_init(2, a[1], a[2]))

\* A fit that has not started a stage yet: fit(X, y) with len(y) samples.
NewFit(y) ==
  [pc |-> "idle", stage |-> 0, y |-> y, y_pred |-> << >>, residual |-> << >>,
   terminal_regions |-> << >>, leaf |-> 0,
   tree |-> [l \in Leaves |-> FittedValue], refreshes |-> 0]

Labels == [1 .. NCols(coefficients_matrix) -> {0, 1}]

\* The driver starts a stage of fit f: it has the ensemble's scores y_pred of
\* the learners so far, takes residual = loss.negative_gradient(y, y_pred),
\* and fits a tree, which sends every sample to a leaf (subsample is 1.0 as
\* in the module's own fit, so no sample is outside the stage's sample mask).
StartStage(f) ==
  /\ fits[f].pc = "idle"
  /\ fits[f].stage < MaxStages
  /\ \E yp \in [1 .. Len(fits[f].y) -> PredVals],
        tr \in [1 .. Len(fits[f].y) -> Leaves] :
       LET g == negative_gradient(coefficients_matrix, coefficients_matrix_t,
                                  initial_weights, fits[f].y, yp)
       IN fits' = [fits EXCEPT ![f] =
                     [@ EXCEPT !.pc = "refresh", !.y_pred = yp, !.residual = g.value,
                               !.terminal_regions = tr, !.leaf = 1,
                               !.tree = [l \in Leaves |-> FittedValue],
                               !.refreshes = 0]]
  /\ UNCHANGED <<ctorVars, selfVars, raised, update_exponents, last, clf, report>>

\* The refresh of update_terminal_regions that keeps exponents once computed.
Refresh_KeepsFirst(f) ==
  /\ fits[f].pc = "refresh"
  /\ update_exponents' =
       IF update_exponents # << >> THEN update_exponents
       ELSE UpdateExponents(coefficients_matrix, initial_weights,
                            fits[f].y, fits[f].y_pred)
  /\ fits' = [fits EXCEPT ![f] = [@ EXCEPT !.pc = "leaves",
                                           !.refreshes = @ + 1]]
  /\ UNCHANGED <<ctorVars, selfVars, raised, last, clf, report>>

\* update_terminal_regions, lines 93-94: the refresh, before line 95 hands
\* over to the driver's loop over the leaves.
Refresh(f) ==
  /\ fits[f].pc = "refresh"
  /\ update_exponents' = UpdateExponents(coefficients_matrix, initial_weights,
                                         fits[f].y, fits[f].y_pred)
  /\ fits' = [fits EXCEPT ![f] = [@ EXCEPT !.pc = "leaves",
                                           !.refreshes = @ + 1]]
  /\ UNCHANGED <<ctorVars, selfVars, raised, last, clf, report>>

\* One turn of the driver's loop over the leaves (line 95), which calls
\* _update_terminal_region (lines 100-103) for the next leaf.
LeafUpdate(f) ==
  /\ fits[f].pc = "leaves"
  /\ fits[f].leaf \in Leaves
  /\ fits' = [fits EXCEPT ![f] =
                [@ EXCEPT !.tree[fits[f].leaf] =
                            LeafAlpha(coefficients_matrix, update_exponents,
                                      fits[f].terminal_regions, fits[f].leaf, fits[f].y),
                          !.leaf = @ + 1]]
  /\ UNCHANGED <<ctorVars, selfVars, raised, update_exponents, last, clf, report>>

\* The loop over the leaves is over: update_terminal_regions returns, the
\* driver adds the learner to the ensemble and the stage's tree, regions and
\* residual go out of scope.
EndStage(f) ==
  /\ fits[f].pc = "leaves"
  /\ fits[f].leaf \notin Leaves
  /\ fits' = [fits EXCEPT ![f] =
                [NewFit(fits[f].y) EXCEPT !.stage = fits[f].stage + 1]]
  /\ UNCHANGED <<ctorVars, selfVars, raised, update_exponents, last, clf, report>>

FitStep(f) == StartStage(f) \/ Refresh(f) \/ LeafUpdate(f) \/ EndStage(f)

\* One fit on a constructed instance.
InitFit ==
  /\ ConstructedFrom(InstanceArgs)
  /\ \E y \in Labels : fits = <<NewFit(y)>>
  /\ last = << >>

NextFit == FitStep(1)

SpecFit == InitFit /\ [][NextFit]_vars

\* Two classifiers that were handed the same instance, fitted on the same
\* training data (as ClassifiersDict.fit does), their steps in any order.
InitShared ==
  /\ ConstructedFrom(TestArgs)
  /\ \E y \in Labels : fits = <<NewFit(y), NewFit(y)>>
  /\ last = << >>

NextShared == \E f \in {1, 2} : FitStep(f)

SpecShared == InitShared /\ [][NextShared]_vars

\* ------------------------------------------- direct calls of the methods
Scores == [1 .. NCols(coefficients_matrix) -> PredVals]
Regions == [1 .. NCols(coefficients_matrix) -> Leaves]
FreshTree == [l \in Leaves |-> FittedValue]

\* The record of a call: its name, its arguments, the tree it was handed as
\* the call left it, and what it returned.
Called(op, y, pred, tr, leaf, tree, value, vector) ==
  [op |-> op, y |-> y, pred |-> pred, terminal_regions |-> tr, leaf |-> leaf,
   tree |-> tree, value |-> value, vector |-> vector]

\* The labels of the training set the calls are made with.
CallerY == fits[1].y

\* The tree a caller hands to _update_terminal_region: the one the last call
\* was handed, or a freshly fitted one when that call had none.
CurrentTree == IF last # << >> /\ last.tree # << >> THEN last.tree ELSE FreshTree

\* loss(y, pred), lines 74-79
Call_loss ==
  /\ \E pred \in Scores :
       LET y == CallerY
           got == Loss(coefficients_matrix, initial_weights, y, pred)
       IN /\ raised' = got.raised
          /\ last' = Called("__call__", y, pred, << >>, 0, << >>, got.value, << >>)
  /\ UNCHANGED <<ctorVars, selfVars, update_exponents, fits, clf, report>>

\* loss.negative_gradient(y, pred), lines 81-86
Call_negative_gradient ==
  /\ \E pred \in Scores :
       LET y == CallerY
           got == negative_gradient(coefficients_matrix, coefficients_matrix_t,
                                    initial_weights, y, pred)
       IN /\ raised' = got.raised
          /\ last' = Called("negative_gradient", y, pred, << >>, 0, << >>, {}, got.value)
  /\ UNCHANGED <<ctorVars, selfVars, update_exponents, fits, clf, report>>

\* The leaves of a tree updated one after the other, from leaf l on, each by
\* _update_terminal_region with the exponents ue (the loop behind line 95).
RECURSIVE UpdateLeaves(_, _, _, _, _, _)
UpdateLeaves(tree, M, ue, tr, y, l) ==
  IF l \notin Leaves THEN tree
  ELSE UpdateLeaves([tree EXCEPT ![l] = LeafAlpha(M, ue, tr, l, y)], M, ue, tr, y, l + 1)

\* update_terminal_regions that also clears the instance's weights while it
\* refreshes the exponents.
Call_update_terminal_regions_Reweights ==
  /\ \E y_pred \in Scores, tr \in Regions :
       LET y == CallerY
           ue == UpdateExponents(coefficients_matrix, initial_weights, y, y_pred)
           tree == FreshTree
       IN /\ update_exponents' = ue
          /\ initial_weights' = [i \in 1 .. Len(initial_weights) |-> 0]
          /\ raised' = "none"
          /\ last' = Called("update_terminal_regions", y, y_pred, tr, 0,
                            UpdateLeaves(tree, coefficients_matrix, ue, tr, y, 1),
                            {}, << >>)
  /\ UNCHANGED <<ctorVars, coefficients_matrix, coefficients_matrix_t, fits, clf, report>>

\* loss.update_terminal_regions(tree, X, y, residual, y_pred, sample_mask),
\* lines 91-95, on a freshly fitted tree: the refresh, then every leaf.
Call_update_terminal_regions ==
  /\ \E y_pred \in Scores, tr \in Regions :
       LET y == CallerY
           ue == UpdateExponents(coefficients_matrix, initial_weights, y, y_pred)
           tree == FreshTree
       IN /\ update_exponents' = ue
          /\ raised' = "none"
          /\ last' = Called("update_terminal_regions", y, y_pred, tr, 0,
                            UpdateLeaves(tree, coefficients_matrix, ue, tr, y, 1),
                            {}, << >>)
  /\ UNCHANGED <<ctorVars, selfVars, fits, clf, report>>

\* _update_terminal_region that stores alpha in every leaf of the tree.
Call_update_terminal_region_AllLeaves ==
  /\ \E pred \in Scores, tr \in Regions, leaf \in Leaves :
       LET tree == CurrentTree
           y == CallerY
       IN
       IF update_exponents = << >>
       THEN /\ raised' = "AttributeError"
            /\ last' = Called("_update_terminal_region", y, pred, tr, leaf, tree,
                              {}, << >>)
       ELSE /\ raised' = "none"
            /\ last' = Called("_update_terminal_region", y, pred, tr, leaf,
                              [l \in Leaves |->
                                 LeafAlpha(coefficients_matrix, update_exponents,
                                           tr, leaf, y)],
                              {}, << >>)
  /\ UNCHANGED <<ctorVars, selfVars, update_exponents, fits, clf, report>>

\* loss._update_terminal_region(tree, terminal_regions, leaf, X, y, residual,
\* pred), lines 97-103; self.update_exponents does not exist before the first
\* update_terminal_regions.
Call_update_terminal_region ==
  /\ \E pred \in Scores, tr \in Regions, leaf \in Leaves :
       LET tree == CurrentTree
           y == CallerY
       IN
       IF update_exponents = << >>
       THEN /\ raised' = "AttributeError"
            /\ last' = Called("_update_terminal_region", y, pred, tr, leaf, tree,
                              {}, << >>)
       ELSE /\ raised' = "none"
            /\ last' = Called("_update_terminal_region", y, pred, tr, leaf,
                              [tree EXCEPT ![leaf] =
                                 LeafAlpha(coefficients_matrix, update_exponents,
                                           tr, leaf, y)],
                              {}, << >>)
  /\ UNCHANGED <<ctorVars, selfVars, update_exponents, fits, clf, report>>

\* Any sequence of direct calls on a constructed instance, made with the
\* labels y of one training set.
Init ==
  /\ ConstructedFrom(TestArgs \cup CoupledArgs)
  /\ \E y \in Labels : fits = <<NewFit(y)>>
  /\ last = << >>

Next ==
  \/ Call_loss
  \/ Call_negative_gradient
  \/ Call_update_terminal_regions
  \/ Call_update_terminal_region

Spec == Init /\ [][Next]_vars

\* ------------------------------------------------------- claims, SpecBuild
IsSubclass == cls \in {"PairwiseKnnLossFunction", "SimpleKnnLossFunction"}

\* The neighbour search answered both calls of the constructor.
Searched == IsSubclass /\ knn_bg # << >>

\* C2: after the override, every neighbour index stored for sample i, in
\* every slot j < k, is a sample with the label of sample i.
C2_LabelPurity ==
  Searched =>
    \A i \in 1 .. Len(trainY) : \A j \in 1 .. knn :
      trainY[knn_bg[i][j]] = trainY[i]

\* C2 witness: the override ran over signal and background samples, and a
\* signal sample's row names another signal sample.
C2_Witness ==
  /\ Searched
  /\ \E i, i2 \in 1 .. Len(trainY) :
       /\ trainY[i] = 1 /\ trainY[i2] = 0
       /\ knn_bg[i][1] # i /\ trainY[knn_bg[i][1]] = 1

\* C3: the Simple constructor ends with an [N, N] matrix and the Pairwise
\* constructor with an [N * k, N] matrix.
C3_MatrixShape ==
  Searched =>
    /\ coefficients_matrix # << >>
    /\ Shape(coefficients_matrix) =
         IF cls = "SimpleKnnLossFunction"
         THEN <<Len(trainY), Len(trainY)>>
         ELSE <<Len(trainY) * knn, Len(trainY)>>

\* C4: every row of the built matrix holds non-negative integers that sum to
\* 2k (Pairwise) or k (Simple).
C4_RowIncrements ==
  Searched =>
    /\ coefficients_matrix # << >>
    /\ \A r \in 1 .. NRows(coefficients_matrix) :
         /\ \A c \in 1 .. NCols(coefficients_matrix) : coefficients_matrix[r][c] >= 0
         /\ SumSeq(coefficients_matrix[r]) =
              IF cls = "SimpleKnnLossFunction" THEN knn ELSE 2 * knn

\* C5: row (i - 1) * k + j of the Pairwise matrix is 1 at column i, 1 at
\* column neighbour(i, j) and 0 elsewhere, two distinct non-zero columns.
C5_PairwiseCoupling ==
  (Searched /\ cls = "PairwiseKnnLossFunction") =>
    /\ coefficients_matrix # << >>
    /\ \A i \in 1 .. Len(trainY) : \A j \in 1 .. knn :
         LET row == coefficients_matrix[(i - 1) * knn + j] IN
         /\ knn_bg[i][j] # i
         /\ \A c \in 1 .. Len(trainY) :
              row[c] = IF c \in {i, knn_bg[i][j]} THEN 1 ELSE 0

\* C6: KnnLossFunction with n_classes # 2 raises, and nothing is stored on
\* the instance.
C6_ClassCountRejected ==
  (phase = "done" /\ cls = "KnnLossFunction" /\ n_classes # 2) =>
    /\ raised = "NotImplementedError"
    /\ coefficients_matrix = << >>
    /\ coefficients_matrix_t = << >>
    /\ initial_weights = << >>

\* C6 witness: a constructor call with three classes and a usable matrix and
\* weight vector has been made.
C6_Witness ==
  /\ phase = "done" /\ cls = "KnnLossFunction" /\ n_classes = 3
  /\ arg_weights # << >> /\ Len(arg_weights) = NRows(arg_matrix)
  /\ raised # "none"

\* C7: a constructed instance has as many initial weights as its matrix has
\* rows, all ones when none were given; weights of another length make the
\* constructor raise.
C7_WeightLength ==
  phase = "done" =>
    /\ raised = "none" =>
         /\ Len(initial_weights) = NRows(coefficients_matrix)
         /\ arg_weights = << >> => initial_weights = Ones(NRows(coefficients_matrix))
         /\ arg_weights # << >> => initial_weights = arg_weights
    /\ (cls = "KnnLossFunction" /\ arg_weights # << >>
          /\ Len(arg_weights) # NRows(arg_matrix)) => raised # "none"

\* C7 witness: two classes, a two-row matrix and a one-entry weight vector.
C7_Witness ==
  /\ phase = "done" /\ cls = "KnnLossFunction" /\ n_classes = 2
  /\ NRows(arg_matrix) = 2 /\ Len(arg_weights) = 1
  /\ raised = "AssertionError"

\* C7 second case reached: default weights on a two-row matrix.
C7_DefaultReached ==
  /\ phase = "done" /\ raised = "none" /\ arg_weights = << >>
  /\ initial_weights = <<1, 1>>

\* ------------------------------------------------------------ claims, Spec
\* C8: no call of loss, negative_gradient, update_terminal_regions or
\* _update_terminal_region changes the coefficient matrix, the cached
\* transpose or the initial weights, and the cached transpose is the
\* transpose of the matrix throughout.
C8_Immutable ==
  /\ [](coefficients_matrix_t = Transpose(coefficients_matrix))
  /\ [][/\ coefficients_matrix' = coefficients_matrix
        /\ coefficients_matrix_t' = coefficients_matrix_t
        /\ initial_weights' = initial_weights]_vars

\* C8 witness: a leaf update has written a leaf value other than 0 into a
\* tree whose leaves update_terminal_regions had set before, so both
\* methods have run and computed from the matrix and the weights.
C8_Witness ==
  /\ last # << >>
  /\ last.op = "_update_terminal_region"
  /\ raised = "none"
  /\ \A l \in Leaves : last.tree[l] # FittedValue
  /\ last.tree[last.leaf].num # {}

\* --------------------------------------------------------- claims, SpecFit
\* The exponents line 94 computes from the scores of fit f's current stage.
StageExponents(f) ==
  UpdateExponents(coefficients_matrix, initial_weights, fits[f].y, fits[f].y_pred)

\* The leaves fit f's current stage has updated so far hold the values
\* _update_terminal_region computes from the stage's own exponents.
OwnLeafValues(f) ==
  \A l \in Leaves :
    l < fits[f].leaf =>
      fits[f].tree[l] = LeafAlpha(coefficients_matrix, StageExponents(f),
                                  fits[f].terminal_regions, l, fits[f].y)

\* C9: in every stage the exponents are refreshed exactly once, before the
\* first leaf is visited, from the scores of that stage; every leaf update
\* of the stage reads that value, never an earlier stage's and never an
\* unset one.
C9_RefreshOrdering ==
  \A f \in DOMAIN fits :
    /\ fits[f].pc = "refresh" =>
         fits[f].refreshes = 0 /\ fits[f].leaf = 1
         /\ \A l \in Leaves : fits[f].tree[l] = FittedValue
    /\ fits[f].pc = "leaves" =>
         /\ fits[f].refreshes = 1
         /\ update_exponents # << >>
         /\ update_exponents = StageExponents(f)
         /\ OwnLeafValues(f)

\* C9 witness: the second stage has updated all its leaves, one of them to a
\* value other than 0, from scores that are not all zero.
C9_Witness ==
  /\ fits[1].stage = 1
  /\ fits[1].pc = "leaves"
  /\ fits[1].leaf \notin Leaves
  /\ \E i \in 1 .. Len(fits[1].y_pred) : fits[1].y_pred[i] # 0
  /\ \E l \in Leaves : fits[1].tree[l].num # {}

\* ------------------------------------------------------ claims, SpecShared
\* C10: with two fits sharing the instance, every leaf value a fit computes
\* is the value it would compute with an instance of its own, that is from
\* exponents refreshed from its own scores.
C10_SharedSafe ==
  \A f \in DOMAIN fits : fits[f].pc = "leaves" => OwnLeafValues(f)

\* C11: the result of a call is fixed by (M, w0, y, pred) and, for a leaf
\* update, the leaf region: the loss value, the negative-gradient vector and
\* the alpha written to the leaf equal what these arguments alone give,
\* whatever calls were made on the instance before.
C11_Deterministic ==
  (last # << >> /\ raised = "none") =>
    /\ last.op = "__call__" =>
          last.value = Loss(coefficients_matrix, initial_weights,
                            last.y, last.pred).value
    /\ last.op = "negative_gradient" =>
          last.vector = negative_gradient(coefficients_matrix, coefficients_matrix_t,
                                          initial_weights, last.y, last.pred).value
    /\ last.op = "_update_terminal_region" =>
          last.tree[last.leaf] =
            LeafAlpha(coefficients_matrix,
                      UpdateExponents(coefficients_matrix, initial_weights,
                                      last.y, last.pred),
                      last.terminal_regions, last.leaf, last.y)

\* ------------------------------- MyGradientBoostingClassifier._check_params
\* Floats are kept in halves (Unit stands for 1.0) with a not-a-number value
\* of their own; every ordering comparison with not-a-number is false.
Unit == 2
F(v) == [nan |-> FALSE, v |-> v]
NaN == [nan |-> TRUE, v |-> 0]
Le(a, b) == ~a.nan /\ ~b.nan /\ a.v <= b.v
Lt(a, b) == ~a.nan /\ ~b.nan /\ a.v < b.v
Gt(a, b) == ~a.nan /\ ~b.nan /\ a.v > b.v

\* The parameters a classifier can be constructed with.
EstimatorCounts == 0 .. 2
Floats == {F(v) : v \in -1 .. Unit + 1} \cup {NaN}
ClassesSeen == 1 .. 3

\* sklearn's LOSS_FUNCTIONS (line 3), by name.
LOSS_FUNCTIONS ==
  [ls |-> "LeastSquaresError", lad |-> "LeastAbsoluteError",
   huber |-> "HuberLossFunction", quantile |-> "QuantileLossFunction",
   bdeviance |-> "BinomialDeviance", mdeviance |-> "MultinomialDeviance",
   deviance |-> "None"]
LossNames == DOMAIN LOSS_FUNCTIONS \cup {"hinge"}

\* A loss parameter: a LossFunction instance (the KnnLossFunction object
\* "knn") or a name.
TheInstance == [instance |-> TRUE, name |-> "KnnLossFunction", made_by |-> "caller"]
Named(name) == [instance |-> FALSE, name |-> name, made_by |-> "caller"]
LossParams == {TheInstance} \cup {Named(n) : n \in LossNames}

\* An init parameter: None (<< >>) or an object with or without fit, predict.
InitParams ==
  {<< >>} \cup {[fit |-> f, predict |-> p, from |-> "caller"] : f, p \in BOOLEAN}

\* loss_class(n_classes) / loss_class(n_classes, alpha), lines 159-162: the
\* exception sklearn's constructor raises, or "none".
LossCtorRaises(class, nc, with_alpha, alpha) ==
  IF class \in {"LeastSquaresError", "LeastAbsoluteError", "HuberLossFunction",
                "QuantileLossFunction"} /\ nc # 1 THEN "ValueError"
  ELSE IF class = "QuantileLossFunction" /\ with_alpha
          /\ ~(Lt(F(0), alpha) /\ Lt(alpha, F(Unit))) THEN "AssertionError"
  ELSE IF class = "BinomialDeviance" /\ nc # 2 THEN "ValueError"
  ELSE IF class = "MultinomialDeviance" /\ nc < 3 THEN "ValueError"
  ELSE IF class = "None" THEN "TypeError"
  ELSE "none"

\* loss_.init_estimator(), line 170 (line 88-89 for the instance)
init_estimator(loss_) == [fit |-> TRUE, predict |-> TRUE, from |-> loss_.name]

\* A classifier before fit: parameters stored, nothing resolved.
NewClassifier(ne, lr, loss, ss, init, alpha, nc) ==
  [pc |-> "new", n_estimators |-> ne, learning_rate |-> lr, loss |-> loss,
   subsample |-> ss, init |-> init, alpha |-> alpha, n_classes_ |-> nc,
   loss_class |-> "unbound", loss_ |-> << >>, init_ |-> << >>,
   raised |-> "none", work |-> 0]

Failed(c, exc) == [c EXCEPT !.pc = "failed", !.raised = exc]

\* Lines 143-162 with deviance resolved to binomial deviance whatever the
\* number of classes.
ResolveLoss_AlwaysBinomial(c) ==
  IF c.loss.instance THEN [c EXCEPT !.loss_ = c.loss]
  ELSE IF c.loss.name \notin DOMAIN LOSS_FUNCTIONS THEN Failed(c, "ValueError")
  ELSE LET loss_class == IF c.loss.name = "deviance" THEN "BinomialDeviance"
                         ELSE LOSS_FUNCTIONS[c.loss.name]
           exc == LossCtorRaises(loss_class, c.n_classes_,
                                 c.loss.name \in {"huber", "quantile"}, c.alpha)
       IN IF exc # "none" THEN Failed([c EXCEPT !.loss_class = loss_class], exc)
          ELSE [c EXCEPT !.loss_class = loss_class,
                         !.loss_ = [instance |-> TRUE, name |-> loss_class,
                                    made_by |-> "_check_params"]]

\* Lines 143-162: self.loss_ from self.loss.
ResolveLoss(c) ==
  IF c.loss.instance THEN [c EXCEPT !.loss_ = c.loss]
  ELSE IF c.loss.name \notin DOMAIN LOSS_FUNCTIONS THEN Failed(c, "ValueError")
  ELSE LET loss_class == IF c.loss.name = "deviance"
                         THEN (IF c.n_classes_ > 2 THEN "MultinomialDeviance"
                               ELSE "BinomialDeviance")
                         ELSE LOSS_FUNCTIONS[c.loss.name]
           exc == LossCtorRaises(loss_class, c.n_classes_,
                                 c.loss.name \in {"huber", "quantile"}, c.alpha)
       IN IF exc # "none" THEN Failed([c EXCEPT !.loss_class = loss_class], exc)
          ELSE [c EXCEPT !.loss_class = loss_class,
                         !.loss_ = [instance |-> TRUE, name |-> loss_class,
                                    made_by |-> "_check_params"]]

\* Lines 167-170: self.init_ from self.init.
ResolveInit(c) ==
  IF c.init # << >>
  THEN IF ~c.init.fit \/ ~c.init.predict THEN Failed(c, "ValueError")
       ELSE [c EXCEPT !.init_ = c.init]
  ELSE [c EXCEPT !.init_ = init_estimator(c.loss_)]

\* _check_params, lines 135-173: the classifier as the call leaves it.
check_params(c) ==
  IF c.n_estimators <= 0 THEN Failed(c, "ValueError")
  ELSE IF Le(c.learning_rate, F(0)) THEN Failed(c, "ValueError")
  ELSE LET c1 == ResolveLoss(c) IN
    IF c1.raised # "none" THEN c1
    ELSE IF Le(c1.subsample, F(0)) \/ Gt(c1.subsample, F(Unit))
    THEN Failed(c1, "ValueError")
    ELSE LET c2 == ResolveInit(c1) IN
      IF c2.raised # "none" THEN c2
      ELSE IF ~(Lt(F(0), c2.alpha) /\ Lt(c2.alpha, F(Unit)))
      THEN Failed(c2, "ValueError")
      ELSE [c2 EXCEPT !.pc = "checked"]

\* fit(X, y) up to the end of validation: classes_ and n_classes_ are set,
\* then _check_params runs.
Fit_check_params ==
  /\ clf # << >> /\ clf.pc = "new"
  /\ clf' = check_params(clf)
  /\ UNCHANGED <<lossVars, report>>

\* fit(X, y) after validation: the fitting work, reached only when
\* _check_params returned.
Fit_work ==
  /\ clf # << >> /\ clf.pc = "checked"
  /\ clf' = [clf EXCEPT !.pc = "fitted", !.work = @ + 1]
  /\ UNCHANGED <<lossVars, report>>

InitClassifier ==
  /\ Unbuilt
  /\ report = << >>
  /\ \E ne \in EstimatorCounts, lr \in Floats, loss \in LossParams, ss \in Floats,
        init \in InitParams, alpha \in Floats, nc \in ClassesSeen :
       clf = NewClassifier(ne, lr, loss, ss, init, alpha, nc)

NextClassifier ==
  \/ Fit_check_params
  \/ Fit_work

SpecClassifier == InitClassifier /\ [][NextClassifier]_vars

\* ---------------------------------------------- claims, SpecClassifier
\* A configuration the validation has to reject.
InvalidConfiguration(c) ==
  \/ c.n_estimators <= 0
  \/ Le(c.learning_rate, F(0))
  \/ ~(Lt(F(0), c.subsample) /\ Le(c.subsample, F(Unit)))
  \/ ~(Lt(F(0), c.alpha) /\ Lt(c.alpha, F(Unit)))
  \/ (c.init # << >> /\ (~c.init.fit \/ ~c.init.predict))

\* C12: once _check_params has run, a configuration with n_estimators <= 0,
\* learning_rate <= 0, subsample outside (0, 1], alpha outside (0, 1) or an
\* init lacking fit or predict has been rejected with an error, and a
\* rejected classifier has done no fitting work.
C12_InvalidRejected ==
  (clf # << >> /\ clf.pc # "new") =>
    /\ InvalidConfiguration(clf) => clf.raised # "none"
    /\ clf.raised # "none" => clf.work = 0

\* The call got past the two checks that precede the resolution of the loss.
ReachedResolution ==
  /\ clf # << >> /\ clf.pc # "new"
  /\ clf.n_estimators > 0 /\ ~Le(clf.learning_rate, F(0))

\* C13: a LossFunction instance becomes loss_ itself; a name outside the
\* registry is rejected; 'deviance' resolves to multinomial deviance with
\* more than 2 classes and to binomial deviance otherwise; any other
\* registered name resolves to its registry entry; after a normal return
\* loss_ and init_ are set, init_ being the supplied init or else the
\* resolved loss's init estimator.
C13_LossResolution ==
  /\ ReachedResolution =>
       /\ clf.loss.instance => clf.loss_ = clf.loss
       /\ (~clf.loss.instance /\ clf.loss.name \notin DOMAIN LOSS_FUNCTIONS) =>
            clf.raised # "none" /\ clf.loss_ = << >>
       /\ (~clf.loss.instance /\ clf.loss.name = "deviance") =>
            clf.loss_class = IF clf.n_classes_ > 2 THEN "MultinomialDeviance"
                             ELSE "BinomialDeviance"
       /\ (~clf.loss.instance /\ clf.loss.name \in DOMAIN LOSS_FUNCTIONS
             /\ clf.loss.name # "deviance") =>
            clf.loss_class = LOSS_FUNCTIONS[clf.loss.name]
  /\ (clf # << >> /\ clf.pc \in {"checked", "fitted"}) =>
       /\ clf.loss_ # << >> /\ clf.init_ # << >>
       /\ ~clf.loss.instance => clf.loss_.name = clf.loss_class
       /\ clf.init_ = IF clf.init # << >> THEN clf.init
                      ELSE init_estimator(clf.loss_)

\* C13 witness: 'deviance' with three classes and no init returned normally
\* with multinomial deviance and its init estimator.
C13_Witness ==
  /\ clf # << >> /\ clf.pc = "checked"
  /\ clf.loss = Named("deviance") /\ clf.n_classes_ = 3 /\ clf.init = << >>
  /\ clf.loss_.name = "MultinomialDeviance"
  /\ clf.init_.from = "MultinomialDeviance"

\* C13, the other cases reached: the instance kept as loss_ with a supplied
\* init, and an unregistered name rejected.
C13_InstanceReached ==
  /\ clf # << >> /\ clf.pc = "checked"
  /\ clf.loss = TheInstance /\ clf.loss_ = TheInstance
  /\ clf.init # << >> /\ clf.init_ = clf.init

\* ------------------------------------------------- reports.py: Predictions
\* An OrderedDict is the sequence of its <<key, value>> items in insertion
\* order; a pandas.Series is the sequence of its <<index, value>> entries.
Keys(od) == [i \in 1 .. Len(od) |-> od[i][1]]
HasKey(od, k) == \E i \in 1 .. Len(od) : od[i][1] = k
Get(od, k) == od[CHOOSE i \in 1 .. Len(od) : od[i][1] = k][2]

\* od[k] = v moved to the end of the mapping, as a delete and a fresh insert.
SetItem_MoveToEnd(od, k, v) ==
  Append(SelectSeq(od, LAMBDA item : item[1] # k), <<k, v>>)

\* od[k] = v: a key that is there keeps its place, a new key goes last.
SetItem(od, k, v) ==
  IF HasKey(od, k)
  THEN [i \in 1 .. Len(od) |-> IF od[i][1] = k THEN <<k, v>> ELSE od[i]]
  ELSE Append(od, <<k, v>>)

\* Classifiers: a name, whether the class has staged_predict_proba, and the
\* number of stages of the fitted ensemble. The prediction array of stage t
\* (counted from 0 as enumerate does) is <<name, t>>; predict_proba of a
\* staged classifier is its last stage, of any other classifier <<name, -1>>.
Names == {"ada", "knn", "gb"}
StageCounts == 1 .. MaxStages + 2
Classifier(name, staged, T) == [name |-> name, staged |-> staged, T |-> T]
ClassifierKinds(name) ==
  {Classifier(name, TRUE, T) : T \in StageCounts} \cup {Classifier(name, FALSE, 1)}
staged_predict_proba(c) == [i \in 1 .. c.T |-> <<c.name, i - 1>>]
predict_proba(c) == IF c.staged THEN <<c.name, c.T - 1>> ELSE <<c.name, -1>>

AllClassifiers == UNION {ClassifierKinds(n) : n \in Names}

\* The ordered mappings name -> classifier of at most two classifiers.
ClassifierDicts ==
  {<< >>}
  \cup {<< <<c.name, c>> >> : c \in AllClassifiers}
  \cup {<< <<p[1].name, p[1]>>, <<p[2].name, p[2]>> >> :
          p \in {q \in AllClassifiers \X AllClassifiers : q[1].name # q[2].name}}

\* The else branch of __init__ with the first stage kept as the prediction.
RECURSIVE FullPredictions_FirstStage(_, _, _, _)
FullPredictions_FirstStage(cd, i, predictions, staged_predictions) ==
  IF i > Len(cd) THEN [predictions |-> predictions,
                       staged_predictions |-> staged_predictions]
  ELSE LET name == cd[i][1]
           classifier == cd[i][2]
       IN IF classifier.staged
          THEN LET staged == SetItem(staged_predictions, name,
                                     staged_predict_proba(classifier))
               IN FullPredictions_FirstStage(cd, i + 1,
                                  SetItem(predictions, name, Get(staged, name)[1]),
                                  staged)
          ELSE FullPredictions_FirstStage(cd, i + 1,
                               SetItem(predictions, name, predict_proba(classifier)),
                               staged_predictions)

\* The else branch of __init__, lines 105-110, from item i of the mapping on:
\* the predictions and staged predictions when the loop ends.
RECURSIVE FullPredictions(_, _, _, _)
FullPredictions(cd, i, predictions, staged_predictions) ==
  IF i > Len(cd) THEN [predictions |-> predictions,
                       staged_predictions |-> staged_predictions]
  ELSE LET name == cd[i][1]
           classifier == cd[i][2]
       IN IF classifier.staged
          THEN LET staged == SetItem(staged_predictions, name,
                                     staged_predict_proba(classifier))
               IN FullPredictions(cd, i + 1,
                                  SetItem(predictions, name,
                                          Get(staged, name)[Len(Get(staged, name))]),
                                  staged)
          ELSE FullPredictions(cd, i + 1,
                               SetItem(predictions, name, predict_proba(classifier)),
                               staged_predictions)

\* The if branch of __init__, lines 98-100.
RECURSIVE LowMemoryPredictions(_, _, _)
LowMemoryPredictions(cd, i, predictions) ==
  IF i > Len(cd) THEN predictions
  ELSE LowMemoryPredictions(cd, i + 1,
                            SetItem(predictions, cd[i][1], predict_proba(cd[i][2])))

\* Predictions(classifiers_dict, X, y, low_memory), lines 86-110. An
\* attribute that is None or was never assigned is [none |-> TRUE].
None == [none |-> TRUE, items |-> << >>]
Some(items) == [none |-> FALSE, items |-> items]
Predictions_init(cd, low_memory) ==
  IF low_memory
  THEN [pc |-> "built", low_memory |-> TRUE,
        predictions |-> LowMemoryPredictions(cd, 1, << >>),
        staged_predictions |-> None, classifiers |-> Some(cd),
        classifiers_dict |-> cd, raised |-> "none", call |-> << >>]
  ELSE LET full == FullPredictions(cd, 1, << >>, << >>)
       IN [pc |-> "built", low_memory |-> FALSE,
           predictions |-> full.predictions,
           staged_predictions |-> Some(full.staged_predictions),
           classifiers |-> None,
           classifiers_dict |-> cd, raised |-> "none", call |-> << >>]

\* The arguments of a Predictions that is about to be constructed.
Requested(cd, low_memory) ==
  [pc |-> "new", low_memory |-> low_memory, predictions |-> << >>,
   staged_predictions |-> None, classifiers |-> None,
   classifiers_dict |-> cd, raised |-> "none", call |-> << >>]

Predictions_new ==
  /\ report # << >> /\ report.pc = "new"
  /\ report' = Predictions_init(report.classifiers_dict, report.low_memory)
  /\ UNCHANGED <<lossVars, clf>>

\* _get_staged_proba, lines 131-141: the stored staged predictions, or the
\* stages of every classifier that has staged_predict_proba.
get_staged_proba(r) ==
  IF ~r.staged_predictions.none THEN r.staged_predictions.items
  ELSE LET cd == SelectSeq(r.classifiers.items, LAMBDA item : item[2].staged)
       IN [i \in 1 .. Len(cd) |-> <<cd[i][1], staged_predict_proba(cd[i][2])>>]

\* enumerate(stage_preds): the stages with their numbers, counted from 0.
Enumerate(stage_preds) == [i \in 1 .. Len(stage_preds) |-> <<i - 1, stage_preds[i]>>]

\* The index of the one entry of the Series built when stages is None.
ResultKey == -1

\* _get_stages with the stages counted from 1.
get_stages_FromOne(r, stages) ==
  IF stages.none
  THEN [i \in 1 .. Len(r.predictions) |->
          <<r.predictions[i][1], << <<ResultKey, r.predictions[i][2]>> >> >>]
  ELSE LET wanted == {stages.items[i] : i \in 1 .. Len(stages.items)}
           staged == get_staged_proba(r)
       IN [i \in 1 .. Len(staged) |->
             <<staged[i][1],
               SelectSeq([j \in 1 .. Len(staged[i][2]) |-> <<j, staged[i][2][j]>>],
                         LAMBDA e : e[1] \in wanted)>>]

\* _get_stages(stages), lines 143-156: name -> Series for stages None or a
\* collection of stage numbers.
get_stages(r, stages) ==
  IF stages.none
  THEN [i \in 1 .. Len(r.predictions) |->
          <<r.predictions[i][1], << <<ResultKey, r.predictions[i][2]>> >> >>]
  ELSE LET wanted == {stages.items[i] : i \in 1 .. Len(stages.items)}
           staged == get_staged_proba(r)
       IN [i \in 1 .. Len(staged) |->
             <<staged[i][1],
               SelectSeq(Enumerate(staged[i][2]), LAMBDA e : e[1] \in wanted)>>]

\* islice(iterable, start, None, step) with the start taken one too late.
islice_Late(items, start, step) ==
  LET at == [i \in 1 .. Len(items) |-> <<i - 1, items[i]>>]
      kept == SelectSeq(at, LAMBDA e : e[1] >= start + 1 /\ (e[1] - start - 1) % step = 0)
  IN [i \in 1 .. Len(kept) |-> kept[i][2]]

\* islice(iterable, start, None, step) for start >= 0 and step >= 1.
islice(items, start, step) ==
  LET at == [i \in 1 .. Len(items) |-> <<i - 1, items[i]>>]
      kept == SelectSeq(at, LAMBDA e : e[1] >= start /\ (e[1] - start) % step = 0)
  IN [i \in 1 .. Len(kept) |-> kept[i][2]]

\* The function handed to the mappers, applied to a prediction array.
Function(pred) == <<"f", pred>>

\* Series.apply(function), and the loop of lines 167-168
Apply(series) == [i \in 1 .. Len(series) |-> <<series[i][1], Function(series[i][2])>>]

\* The prediction arrays the function was applied to, over a whole result.
RECURSIVE AppliedTo(_, _)
AppliedTo(result, i) ==
  IF i > Len(result) THEN << >>
  ELSE [j \in 1 .. Len(result[i][2]) |-> result[i][2][j][2][2]] \o AppliedTo(result, i + 1)

\* _map_on_staged_proba(function, step), lines 158-169, for step >= 1
map_on_staged_proba(r, step) ==
  LET staged == get_staged_proba(r)
  IN [i \in 1 .. Len(staged) |->
        <<staged[i][1], Apply(islice(Enumerate(staged[i][2]), step - 1, step))>>]

\* _map_on_stages(function, stages), lines 171-180
map_on_stages(r, stages) ==
  LET selected_stages == get_stages(r, stages)
  IN [i \in 1 .. Len(selected_stages) |->
        <<selected_stages[i][1], Apply(selected_stages[i][2])>>]

\* The arguments the mappers are called with.
StageNumbers == -1 .. MaxStages + 3
StageArgs ==
  {None} \cup {Some(<< >>)} \cup {Some(<<a>>) : a \in StageNumbers}
  \cup {Some(<<a, b>>) : a, b \in StageNumbers}
Steps == 0 .. 3

\* The record of a call of a mapper: its arguments and what it returned.
Mapped(op, stages, step, result) ==
  [op |-> op, stages |-> stages, step |-> step, result |-> result,
   applied |-> IF op = "_get_stages" THEN << >> ELSE AppliedTo(result, 1)]

Call_get_stages ==
  /\ report # << >> /\ report.pc = "built"
  /\ \E stages \in StageArgs :
       report' = [report EXCEPT !.raised = "none",
                    !.call = Mapped("_get_stages", stages, 0, get_stages(report, stages))]
  /\ UNCHANGED <<lossVars, clf>>

Call_map_on_stages ==
  /\ report # << >> /\ report.pc = "built"
  /\ \E stages \in StageArgs :
       report' = [report EXCEPT !.raised = "none",
                    !.call = Mapped("_map_on_stages", stages, 0,
                                    map_on_stages(report, stages))]
  /\ UNCHANGED <<lossVars, clf>>

\* islice rejects a step below 1 when the first classifier's stages are
\* sliced (line 167); with no staged classifier the loop body never runs.
Call_map_on_staged_proba ==
  /\ report # << >> /\ report.pc = "built"
  /\ \E step \in Steps :
       IF step < 1 /\ get_staged_proba(report) # << >>
       THEN report' = [report EXCEPT !.raised = "ValueError",
                         !.call = Mapped("_map_on_staged_proba", None, step, << >>)]
       ELSE report' = [report EXCEPT !.raised = "none",
                         !.call = Mapped("_map_on_staged_proba", None, step,
                                         IF step < 1 THEN << >>
                                         ELSE map_on_staged_proba(report, step))]
  /\ UNCHANGED <<lossVars, clf>>

InitPredictions ==
  /\ Unbuilt
  /\ clf = << >>
  /\ \E cd \in ClassifierDicts, low_memory \in BOOLEAN :
       report = Requested(cd, low_memory)

NextPredictions ==
  \/ Predictions_new
  \/ Call_get_stages
  \/ Call_map_on_stages
  \/ Call_map_on_staged_proba

SpecPredictions == InitPredictions /\ [][NextPredictions]_vars

\* --------------------------------------------- claims, SpecPredictions
Built == report # << >> /\ report.pc = "built"

\* C14: a Predictions built in full mode is built without an error; its
\* predictions hold exactly the names of the mapping, in its order; a
\* classifier with staged prediction has all its stages stored and its last
\* stage as its prediction; a classifier without has its final prediction
\* and no entry in staged_predictions.
C14_StagedFallback ==
  (Built /\ ~report.low_memory) =>
    LET cd == report.classifiers_dict
        staged == report.staged_predictions.items
    IN /\ report.call = << >> => report.raised = "none"
       /\ Keys(report.predictions) = Keys(cd)
       /\ ~report.staged_predictions.none
       /\ \A i \in 1 .. Len(cd) :
            LET name == cd[i][1]
                c == cd[i][2]
            IN IF c.staged
               THEN /\ HasKey(staged, name)
                    /\ Len(Get(staged, name)) = c.T
                    /\ \A t \in 1 .. c.T : Get(staged, name)[t] = <<name, t - 1>>
                    /\ report.predictions[i][2] = <<name, c.T - 1>>
               ELSE /\ ~HasKey(staged, name)
                    /\ report.predictions[i][2] = <<name, -1>>

\* C14 witness: full mode over a classifier without staged prediction
\* followed by one with three stages.
C14_Witness ==
  /\ Built /\ ~report.low_memory
  /\ Len(report.classifiers_dict) = 2
  /\ ~report.classifiers_dict[1][2].staged
  /\ report.classifiers_dict[2][2].staged /\ report.classifiers_dict[2][2].T = 3
  /\ Len(report.staged_predictions.items) = 1
  /\ Len(report.predictions) = 2

\* The valid stages among the requested ones, in increasing order, for a
\* classifier of T stages.
ValidStages(T, stages) ==
  SelectSeq([t \in 1 .. T |-> t - 1],
            LAMBDA t : \E i \in 1 .. Len(stages) : stages[i] = t)

\* The classifiers of the mapping that have staged prediction, in its order.
StagedNames(cd) == Keys(SelectSeq(cd, LAMBDA item : item[2].staged))

\* C15: _get_stages for a collection of stage numbers returns one Series per
\* classifier with staged predictions and none for the others; its keys are
\* the requested numbers that are stages of that classifier, in increasing
\* order, each with that stage's prediction.
C15_StageSubset ==
  (Built /\ report.call # << >> /\ report.call.op = "_get_stages"
     /\ ~report.call.stages.none) =>
    LET cd == report.classifiers_dict
        result == report.call.result
    IN /\ report.raised = "none"
       /\ Keys(result) = StagedNames(cd)
       /\ \A i \in 1 .. Len(result) :
            LET name == result[i][1]
                T == Get(cd, name).T
                series == result[i][2]
            IN /\ Keys(series) = ValidStages(T, report.call.stages.items)
               /\ \A j \in 1 .. Len(series) : series[j][2] = <<name, series[j][1]>>

\* C15 witness: stages 3 and 0 (in that order) and stages 4 and 1 requested
\* of a classifier with three and one with two stages.
C15_Witness ==
  /\ Built /\ report.call # << >> /\ report.call.op = "_get_stages"
  /\ ~report.call.stages.none
  /\ Len(report.call.result) = 1
  /\ \E i \in 1 .. Len(report.classifiers_dict) :
       ~report.classifiers_dict[i][2].staged
  /\ \/ /\ report.call.stages.items = <<2, 0>>
        /\ report.call.result[1][2] = << <<0, <<report.call.result[1][1], 0>> >> >>
     \/ /\ report.call.stages.items = <<4, 1>>
        /\ Keys(report.call.result[1][2]) = <<1>>

\* C19: _map_on_staged_proba with step s >= 1 returns one series per
\* classifier with staged predictions, in the mapping's order, with the keys
\* s-1, 2s-1, ... below the number of stages in increasing order, each with
\* the function of that stage's prediction, and the function is applied to
\* exactly these stages.
C19_EveryStepth ==
  (Built /\ report.call # << >> /\ report.call.op = "_map_on_staged_proba"
     /\ report.call.step >= 1) =>
    LET cd == report.classifiers_dict
        s == report.call.step
        result == report.call.result
    IN /\ report.raised = "none"
       /\ Keys(result) = StagedNames(cd)
       /\ \A i \in 1 .. Len(result) :
            LET name == result[i][1]
                T == Get(cd, name).T
                series == result[i][2]
            IN /\ \A t \in 0 .. T - 1 :
                    (\E j \in 1 .. Len(series) : series[j][1] = t) <=> (t + 1) % s = 0
               /\ \A j \in 1 .. Len(series) :
                    /\ series[j][2] = Function(<<name, series[j][1]>>)
                    /\ j > 1 => series[j - 1][1] < series[j][1]
                    /\ series[j][1] \in 0 .. T - 1
       /\ Len(report.call.applied) =
            SumSeq([i \in 1 .. Len(result) |-> Len(result[i][2])])
       /\ \A a \in 1 .. Len(report.call.applied) :
            (report.call.applied[a][2] + 1) % s = 0

\* C19 witness: step 2 over a classifier with four stages gives the keys 1
\* and 3.
C19_Witness ==
  /\ Built /\ report.call # << >> /\ report.call.op = "_map_on_staged_proba"
  /\ report.call.step = 2 /\ report.raised = "none"
  /\ \E i \in 1 .. Len(report.call.result) :
       Keys(report.call.result[i][2]) = <<1, 3>>

\* --------------------------------------------- reports.py: ClassifiersDict
\* A classifier held by a ClassifiersDict: whose it is, and how it was fitted.
Untrained(name) == [name |-> name, fitted |-> FALSE, weighted |-> FALSE]

\* The ClassifiersDicts of up to MaxN classifiers, in every insertion order.
Injective(f) == \A i, j \in DOMAIN f : f[i] = f[j] => i = j
TrainableDicts ==
  UNION {{[i \in 1 .. n |-> <<f[i], Untrained(f[i])>>] :
            f \in {g \in [1 .. n -> Names \cup {"uniform"}] : Injective(g)}} :
         n \in 0 .. MaxN}

\* train_classifier(name_classifier, X, y, sample_weight), lines 43-53: the
\* pair it was given, its classifier fitted (the time spent is left out).
train_classifier(name_classifier, sample_weight) ==
  <<name_classifier[1],
    [name_classifier[2] EXCEPT !.fitted = TRUE, !.weighted = ~sample_weight.none]>>

\* map_on_cluster(ipc_profile, train_classifier, self.iteritems(), ...),
\* lines 64-68: one result per item, handed back in the order `order`.
map_on_cluster(items, sample_weight, order) ==
  [i \in 1 .. Len(items) |-> train_classifier(items[order[i]], sample_weight)]

\* The orders results can come back in.
Orders(n) == {f \in [1 .. n -> 1 .. n] : Injective(f)}

\* The loop of lines 70-72 from result i on: self[name] = classifier.
RECURSIVE Merge(_, _, _)
Merge(self, result, i) ==
  IF i > Len(result) THEN self
  ELSE Merge(SetItem(self, result[i][1], result[i][2]), result, i + 1)

\* ClassifiersDict.fit(X, y, sample_weight, ipc_profile), lines 60-78
ClassifiersDict_fit ==
  /\ report # << >> /\ report.pc = "dict"
  /\ \E order \in Orders(Len(report.items)), sample_weight \in {None, Some(<<1>>)} :
       LET result == map_on_cluster(report.items, sample_weight, order)
       IN report' = [report EXCEPT !.pc = "fitted",
                       !.fits = @ + 1,
                       !.before = report.items,
                       !.result = result,
                       !.items = Merge(report.items, result, 1)]
  /\ UNCHANGED <<lossVars, clf>>

\* fit returns self: the mapping can be fitted again.
ClassifiersDict_again ==
  /\ report # << >> /\ report.pc = "fitted" /\ report.fits < MaxStages
  /\ report' = [report EXCEPT !.pc = "dict"]
  /\ UNCHANGED <<lossVars, clf>>

InitDict ==
  /\ Unbuilt
  /\ clf = << >>
  /\ \E items \in TrainableDicts :
       report = [pc |-> "dict", fits |-> 0, items |-> items, before |-> << >>,
                 result |-> << >>]

NextDict ==
  \/ ClassifiersDict_fit
  \/ ClassifiersDict_again

SpecDict == InitDict /\ [][NextDict]_vars

\* ----------------------------------------------------- claims, SpecDict
\* C16: after fit the mapping holds the names it held before, in the same
\* order, each bound to the fitted classifier the training returned for that
\* name, in whatever order the results came back.
C16_OrderPreserved ==
  (report # << >> /\ report.pc = "fitted") =>
    /\ Keys(report.items) = Keys(report.before)
    /\ \A i \in 1 .. Len(report.items) :
         /\ report.items[i][2] = Get(report.result, report.items[i][1])
         /\ report.items[i][2].name = report.items[i][1]
         /\ report.items[i][2].fitted

\* C16 witness: three classifiers whose results came back in reverse order.
C16_Witness ==
  /\ report # << >> /\ report.pc = "fitted"
  /\ Len(report.items) = 3
  /\ Keys(report.result) = <<report.items[3][1], report.items[2][1], report.items[1][1]>>
  /\ \A i \in 1 .. 3 : report.items[i][2].fitted

\* ------------------------------------------ reports.py: binning of samples
\* The feature table self.X: per column, one integer value per sample.
Columns == {"column0", "column1"}
Tables ==
  UNION {[column0 : [1 .. n -> 0 .. 2], column1 : [1 .. n -> 0 .. 1]] : n \in 1 .. 3}
Samples(X) == DOMAIN X.column0

\* The arguments of the binning methods.
VarNames ==
  {<< >>, <<"column0">>, <<"column1">>, <<"column0", "column1">>,
   <<"column1", "column0">>, <<"column0", "column0">>,
   <<"column0", "column1", "column0">>, <<"column2">>}
BinCounts == 1 .. 3
Masks(X) == {None} \cup {Some(mask) : mask \in [Samples(X) -> BOOLEAN]}

\* _check_mask, lines 121-127, for a boolean mask of the right length
check_mask(X, mask) == IF mask.none THEN [i \in Samples(X) |-> TRUE] ELSE mask.items

\* numpy.min, numpy.max of a column over the masked samples
Masked(X, mask, var) == {X[var][i] : i \in {j \in Samples(X) : mask[j]}}
Min(S) == CHOOSE v \in S : \A w \in S : v <= w
Max(S) == CHOOSE v \in S : \A w \in S : v >= w

\* numpy.linspace(lo, hi, num) for num >= 2: num points, kept as numerators
\* over the denominator num - 1.
linspace(lo, hi, num) ==
  [den |-> num - 1, nums |-> [i \in 1 .. num |-> lo * (num - 1) + (i - 1) * (hi - lo)]]

\* The edges of line 215 with the slice [1:], the last point kept.
Interior_KeepLast(points) ==
  [den |-> points.den, nums |-> SubSeq(points.nums, 2, Len(points.nums))]

\* points[1:-1], line 215
Interior(points) ==
  [den |-> points.den, nums |-> SubSeq(points.nums, 2, Len(points.nums) - 1)]

\* points[1::2], line 224
EverySecond(points) ==
  [den |-> points.den,
   nums |-> [i \in 1 .. Len(points.nums) \div 2 |-> points.nums[2 * i]]]

\* numpy.searchsorted(limits, x): the number of limits below x
searchsorted(limits, x) ==
  Cardinality({j \in 1 .. Len(limits.nums) : limits.nums[j] < x * limits.den})

\* metrics.compute_bin_indices(X, var_names, bin_limits): the bin of every
\* sample, the axes combined row-major, from axis a on.
RECURSIVE compute_bin_indices(_, _, _, _, _)
compute_bin_indices(X, var_names, bin_limits, a, bin_indices) ==
  IF a > Len(var_names) THEN bin_indices
  ELSE compute_bin_indices(X, var_names, bin_limits, a + 1,
         [i \in Samples(X) |->
            bin_indices[i] * (Len(bin_limits[a].nums) + 1)
            + searchsorted(bin_limits[a], X[var_names[a]][i])])

\* What a binning call returns or raises.
Binned(exc, bin_limits, bin_indices, bin_centers) ==
  [raised |-> exc, bin_limits |-> bin_limits, bin_indices |-> bin_indices,
   bin_centers |-> bin_centers]

\* numpy.min and numpy.max over no sample at all either raise ValueError or
\* give not-a-number, with the numpy and pandas at hand; not-a-number edges
\* have no value above them.
EmptyOutcomes == {"ValueError", "nan"}
NanPoints(num) == [den |-> 0, nums |-> [i \in 1 .. num |-> 0]]
Spaced(X, checked, var, num) ==
  IF \A i \in Samples(X) : ~checked[i] THEN NanPoints(num)
  ELSE linspace(Min(Masked(X, checked, var)), Max(Masked(X, checked, var)), num)

\* _compute_bin_indices(var_names, n_bins, mask), lines 206-216. The message
\* of the assertion formats a name with %i, which raises TypeError.
compute_bin_indices_of(X, var_names, n_bins, mask, on_empty) ==
  IF \E a \in 1 .. Len(var_names) : var_names[a] \notin Columns
  THEN Binned("TypeError", << >>, << >>, << >>)
  ELSE LET checked == check_mask(X, mask)
       IN IF /\ var_names # << >> /\ on_empty = "ValueError"
             /\ \A i \in Samples(X) : ~checked[i]
          THEN Binned("ValueError", << >>, << >>, << >>)
          ELSE LET bin_limits ==
                     [a \in 1 .. Len(var_names) |->
                        Interior(Spaced(X, checked, var_names[a], n_bins + 1))]
               IN Binned("none", bin_limits,
                         compute_bin_indices(X, var_names, bin_limits, 1,
                                             [i \in Samples(X) |-> 0]),
                         << >>)

\* _compute_bin_centers(var_names, n_bins, mask), lines 218-226
compute_bin_centers(X, var_names, n_bins, mask, on_empty) ==
  LET checked == check_mask(X, mask)
  IN IF var_names # << >> /\ var_names[1] \notin Columns
     THEN Binned("KeyError", << >>, << >>, << >>)
     ELSE IF /\ var_names # << >> /\ on_empty = "ValueError"
             /\ \A i \in Samples(X) : ~checked[i]
     THEN Binned("ValueError", << >>, << >>, << >>)
     ELSE IF \E a \in 1 .. Len(var_names) : var_names[a] \notin Columns
     THEN Binned("KeyError", << >>, << >>, << >>)
     ELSE LET bin_centers ==
                [a \in 1 .. Len(var_names) |->
                   EverySecond(Spaced(X, checked, var_names[a], 2 * n_bins + 1))]
          IN IF \E a \in 1 .. Len(var_names) : Len(bin_centers[a].nums) # n_bins
             THEN Binned("AssertionError", << >>, << >>, << >>)
             ELSE Binned("none", << >>, << >>, bin_centers)

\* efficiency(uniform_variables, stages, target_efficiencies, n_bins, label),
\* lines 333-341: the size test, then the bins of mask = (self.y == label).
efficiency(X, uniform_variables, n_bins, mask, on_empty) ==
  IF Len(uniform_variables) \notin {1, 2}
  THEN Binned("ValueError", << >>, << >>, << >>)
  ELSE compute_bin_indices_of(X, uniform_variables, n_bins, mask, on_empty)

\* The methods that bin for a metric: _compute_mse and _compute_staged_mse
\* (lines 228-244), sde_curves (268-270), theil_curves (302-304) and
\* cvm_curves (317-320) start with the bins of mask = (self.y == label).
Metrics == {"mse", "sde", "theil", "cvm"}
metric_bins(X, uniform_variables, n_bins, mask, on_empty) ==
  compute_bin_indices_of(X, uniform_variables, n_bins, mask, on_empty)

\* The record of a binning call: its arguments and what it gave.
BinCall(op, var_names, n_bins, mask, out) ==
  [op |-> op, var_names |-> var_names, n_bins |-> n_bins, mask |-> mask, out |-> out]

Idle == report # << >> /\ report.pc = "table" /\ report.call = << >>

Call_compute_bin_indices ==
  /\ Idle
  /\ \E var_names \in VarNames, n_bins \in BinCounts, mask \in Masks(report.X),
        on_empty \in EmptyOutcomes :
       report' = [report EXCEPT !.call =
         BinCall("_compute_bin_indices", var_names, n_bins, mask,
                 compute_bin_indices_of(report.X, var_names, n_bins, mask, on_empty))]
  /\ UNCHANGED <<lossVars, clf>>

Call_compute_bin_centers ==
  /\ Idle
  /\ \E var_names \in VarNames, n_bins \in BinCounts, mask \in Masks(report.X),
        on_empty \in EmptyOutcomes :
       report' = [report EXCEPT !.call =
         BinCall("_compute_bin_centers", var_names, n_bins, mask,
                 compute_bin_centers(report.X, var_names, n_bins, mask, on_empty))]
  /\ UNCHANGED <<lossVars, clf>>

Call_efficiency ==
  /\ Idle
  /\ \E var_names \in VarNames, n_bins \in BinCounts,
        mask \in Masks(report.X) \ {None}, on_empty \in EmptyOutcomes :
       report' = [report EXCEPT !.call =
         BinCall("efficiency", var_names, n_bins, mask,
                 efficiency(report.X, var_names, n_bins, mask, on_empty))]
  /\ UNCHANGED <<lossVars, clf>>

Call_metric ==
  /\ Idle
  /\ \E metric \in Metrics, var_names \in VarNames, n_bins \in BinCounts,
        mask \in Masks(report.X) \ {None}, on_empty \in EmptyOutcomes :
       report' = [report EXCEPT !.call =
         BinCall(metric, var_names, n_bins, mask,
                 metric_bins(report.X, var_names, n_bins, mask, on_empty))]
  /\ UNCHANGED <<lossVars, clf>>

\* The call is over; the Predictions object is as it was.
Return ==
  /\ report # << >> /\ report.pc = "table" /\ report.call # << >>
  /\ report' = [report EXCEPT !.call = << >>]
  /\ UNCHANGED <<lossVars, clf>>

InitBins ==
  /\ Unbuilt
  /\ clf = << >>
  /\ \E X \in Tables : report = [pc |-> "table", X |-> X, call |-> << >>]

NextBins ==
  \/ Call_compute_bin_indices
  \/ Call_compute_bin_centers
  \/ Call_efficiency
  \/ Call_metric
  \/ Return

SpecBins == InitBins /\ [][NextBins]_vars

\* ----------------------------------------------------- claims, SpecBins
BinningOps == {"_compute_bin_indices", "efficiency"} \cup Metrics
InCall == report # << >> /\ report.pc = "table" /\ report.call # << >>

\* The call has one or two covariates of the table and a mask that selects
\* at least one sample.
Binnable ==
  /\ InCall
  /\ Len(report.call.var_names) \in {1, 2}
  /\ \A a \in 1 .. Len(report.call.var_names) : report.call.var_names[a] \in Columns
  /\ \E i \in Samples(report.X) : check_mask(report.X, report.call.mask)[i]

\* C17: for one or two covariates, a mask selecting at least one sample and
\* n_bins >= 1, the bin computation builds n_bins - 1 interior edges per
\* covariate, equally spaced between the minimum and the maximum over the
\* masked samples, gives every sample a bin id in [0, n_bins) or
\* [0, n_bins^2), the same id to samples with the same covariate values, and
\* _compute_bin_centers returns n_bins centers per covariate.
C17_BinTotality ==
  Binnable =>
    LET X == report.X
        call == report.call
        n == call.n_bins
        checked == check_mask(X, call.mask)
        out == call.out
    IN /\ out.raised = "none"
       /\ call.op \in BinningOps =>
            /\ Len(out.bin_limits) = Len(call.var_names)
            /\ \A a \in 1 .. Len(call.var_names) :
                 LET lo == Min(Masked(X, checked, call.var_names[a]))
                     hi == Max(Masked(X, checked, call.var_names[a]))
                 IN /\ Len(out.bin_limits[a].nums) = n - 1
                    /\ out.bin_limits[a].den = n
                    /\ \A j \in 1 .. n - 1 :
                         out.bin_limits[a].nums[j] = lo * n + j * (hi - lo)
            /\ \A i \in Samples(X) :
                 out.bin_indices[i] \in 0 .. n ^ Len(call.var_names) - 1
            /\ \A i, k \in Samples(X) :
                 (\A a \in 1 .. Len(call.var_names) :
                    X[call.var_names[a]][i] = X[call.var_names[a]][k])
                 => out.bin_indices[i] = out.bin_indices[k]
       /\ call.op = "_compute_bin_centers" =>
            /\ Len(out.bin_centers) = Len(call.var_names)
            /\ \A a \in 1 .. Len(call.var_names) :
                 Len(out.bin_centers[a].nums) = n

\* C17 witness: two covariates in three bins each, where a sample left out
\* by the mask lies above the masked range of the first covariate and gets a
\* bin of the last row.
C17_Witness ==
  /\ Binnable /\ report.call.op = "_compute_bin_indices"
  /\ report.call.var_names = <<"column0", "column1">> /\ report.call.n_bins = 3
  /\ report.call.out.raised = "none"
  /\ \E i \in Samples(report.X) :
       /\ ~check_mask(report.X, report.call.mask)[i]
       /\ report.X.column0[i] >
            Max(Masked(report.X, check_mask(report.X, report.call.mask), "column0"))
       /\ report.call.out.bin_indices[i] >= 6

\* C17, the centers reached: three centers for a covariate.
C17_CentersReached ==
  /\ Binnable /\ report.call.op = "_compute_bin_centers"
  /\ report.call.n_bins = 3 /\ report.call.out.raised = "none"
  /\ Len(report.call.out.bin_centers[1].nums) = 3

\* C18: a binning or efficiency computation with more than two covariates is
\* rejected with an error before any bin is computed, in the efficiency
\* report and in the bin-index computation of the metrics alike, and one or
\* two covariates are accepted.
C18_SizeRejected ==
  (InCall /\ report.call.op \in BinningOps) =>
    /\ Len(report.call.var_names) > 2 =>
         /\ report.call.out.raised # "none"
         /\ report.call.out.bin_indices = << >>
    /\ Binnable => report.call.out.raised = "none"

\* --------------------------------------------------- claims, Spec (leaves)
\* A direct call of _update_terminal_region that found update_exponents set.
LeafWritten ==
  last # << >> /\ last.op = "_update_terminal_region" /\ raised = "none"

\* sum(update_exponents * z) and sum(update_exponents * z * z) of the call
LastZ == LeafZ(coefficients_matrix, last.terminal_regions, last.leaf, last.y)
LastNumerator == SumTerms(Weighted(LastZ, update_exponents))
LastDenominator == SumTerms(Weighted(Mul(LastZ, LastZ), update_exponents))

\* C20: with non-negative initial weights the leaf update divides
\* sum(update_exponents * z) by sum(update_exponents * z * z) + 1e-10, a
\* divisor above 0 (the sum has no negative term), and when the sum under
\* the fraction bar is 0 the value written is exactly 0, with no error.
C20_GuardedDivision ==
  (LeafWritten /\ \A i \in 1 .. Len(initial_weights) : initial_weights[i] >= 0) =>
    LET value == last.tree[last.leaf]
    IN /\ \A p \in LastDenominator : p[2] > 0
       /\ \A p \in value.den : p[2] > 0
       /\ value.num # {} => value.num = LastNumerator /\ value.den = LastDenominator
       /\ value.num = {} <=> LastNumerator = {}
       /\ LastDenominator = {} => value = [num |-> {}, den |-> {}]

\* C20 witness: no row of M touches a sample of the leaf (z is 0 in every
\* row) and the leaf holds 0.
C20_Witness ==
  /\ LeafWritten
  /\ \E i \in 1 .. Len(last.y) : last.terminal_regions[i] = last.leaf
  /\ \A r \in 1 .. Len(LastZ) : LastZ[r] = 0
  /\ LastDenominator = {}
  /\ last.tree[last.leaf] = [num |-> {}, den |-> {}]

\* C20, a zero weight reached: a row that touches the leaf but weighs
\* nothing, and a guarded quotient that is not 0.
C20_ZeroWeightReached ==
  /\ LeafWritten
  /\ \E r \in 1 .. Len(LastZ) : LastZ[r] # 0 /\ initial_weights[r] = 0
  /\ last.tree[last.leaf].num # {}

\* C21: a call of _update_terminal_region for leaf L changes the stored
\* value of leaf L only: every other leaf of the tree it was handed, the
\* cached update_exponents, the matrices and weights and the labels y are
\* as before, and the value written is fixed by the cache and the call's
\* arguments, not by what the tree held; so the values of the leaves do not
\* depend on the order the leaves are visited in.
C21_LeafFrame ==
  [][(last' # << >> /\ last'.op = "_update_terminal_region") =>
       /\ \A l \in Leaves \ {last'.leaf} : last'.tree[l] = CurrentTree[l]
       /\ update_exponents' = update_exponents
       /\ selfVars' = selfVars
       /\ fits' = fits
       /\ last'.y = CallerY
       /\ raised' = "none" =>
            last'.tree[last'.leaf] =
              LeafAlpha(coefficients_matrix, update_exponents,
                        last'.terminal_regions, last'.leaf, last'.y)
       /\ raised' # "none" => last'.tree = CurrentTree]_vars

\* C21 witness: leaf 1 written after leaf 2, the reverse of the order
\* update_terminal_regions visits them in, both with a value that is not 0.
C21_Witness ==
  /\ LeafWritten /\ last.leaf = 1
  /\ last.tree[2] # FittedValue /\ last.tree[2].num # {}
  /\ last.tree[1].num # {}
  /\ last.tree[1] # last.tree[2]

====
